---- MODULE Spec2Model ----
(***************************************************************************)
(* binit: aligning and binning one-dimensional timestamp arrays.           *)
(*                                                                         *)
(* The library consists of pure functions over numpy arrays                *)
(* (src/binit/align.py, src/binit/bin.py).  Every function is an operator  *)
(* here; a behaviour starts with some input arrays and each action is one  *)
(* call of a public function on them, recording arguments and result.      *)
(*                                                                         *)
(* Arrays are sequences (1-based); the source's 0-based, possibly negative *)
(* indices go through PyIndex.  A float is a record [nan, v]: NaN is the   *)
(* missing value, and every comparison with NaN is false as in IEEE-754.   *)
(* Optional arguments are records [some, v]; None is [some |-> FALSE].     *)
(***************************************************************************)
EXTENDS Integers, Sequences, FiniteSets

VARIABLES
    arr,        \* the timestamps (to_be_aligned / arr), flattened
    arr_ndim,   \* number of dimensions of that array
    ref,        \* the reference (to_align_to / bin_edges / bins / events), flattened
    ref_ndim,   \* number of dimensions of that array
    op,         \* the public function called last ("none" before any call)
    args,       \* the arguments of that call
    result      \* what the call returned or raised

vars == <<arr, arr_ndim, ref, ref_ndim, op, args, result>>

---------------------------------------------------------------------------
(* Bounds of the model *)

MaxT == 3          \* reference values are 1..MaxT, timestamps 0..MaxT+1 and two far ones
MaxArrLen == 2     \* longest timestamp array
MaxRefLen == 2     \* longest reference array
MaxParam == 2      \* largest t_before / max_latency / binsize argument
MaxDim == 2        \* largest number of array dimensions (shape specification only)
MaxSplitLen == 3   \* longest timestamp array (grouping specification only)

(* Program constant: the offset of the dummy element that _negative_align
   appends past the maximum of the reference. *)
DummyOffset == 100

---------------------------------------------------------------------------
(* Values *)

NaN == [nan |-> TRUE, v |-> 0]
F(x) == [nan |-> FALSE, v |-> x]

None == [some |-> FALSE, v |-> 0]
Some(x) == [some |-> TRUE, v |-> x]

\* Python truthiness of an Optional[float]: None and 0 are both falsy.
Truthy(o) == o.some /\ o.v # 0

\* IEEE comparisons of a float with a number: false on NaN.
FGt(a, c) == ~a.nan /\ a.v > c
FGe(a, c) == ~a.nan /\ a.v >= c

Elems(s) == {s[i] : i \in 1..Len(s)}
SetMax(S) == CHOOSE m \in S : \A y \in S : y <= m
SetMin(S) == CHOOSE m \in S : \A y \in S : m <= y
np_max(a) == SetMax(Elems(a))
np_min(a) == SetMin(Elems(a))

\* a[i] for a Python index i: a negative index counts from the end.
PyIndex(a, i) == IF i < 0 THEN a[Len(a) + i + 1] ELSE a[i + 1]

\* np.searchsorted(a, v), side='left': the first insertion index keeping a sorted.
searchsorted(a, v) == Cardinality({i \in 1..Len(a) : a[i] < v})

\* np.digitize(x, bins) for non-decreasing bins: i with bins[i-1] <= x < bins[i].
digitize(x, bins) == Cardinality({i \in 1..Len(bins) : bins[i] <= x})

---------------------------------------------------------------------------
(* src/binit/align.py *)

Ok(ndim, val) == [status |-> "ok", type |-> "ndarray", ndim |-> ndim, val |-> val]
Raise(exc, at) == [status |-> exc, type |-> "exception", ndim |-> 0, val |-> at]

\* Both arguments are numpy arrays here, so the iterability and isinstance
\* checks (lines 63-87) pass; this is the flatness check that follows them.
shape_rejected(a_ndim, r_ndim) == ~(r_ndim = 1) /\ ~(a_ndim = 1)

\* A faulty variant of _align_to: negative latencies are not masked.
align_to_unmasked(a, a_ndim, r, r_ndim, no_beyond) ==
    Ok(a_ndim, [i \in 1..Len(a) |-> F(a[i] - PyIndex(r, searchsorted(r, a[i]) - 1))])

_align_to(a, a_ndim, r, r_ndim, no_beyond) ==
    IF shape_rejected(a_ndim, r_ndim)
    THEN Raise("ValueError", "flat_check")
    ELSE IF r_ndim # 1
    THEN Raise("ValueError", "searchsorted")   \* np.searchsorted needs a 1-D first argument
    ELSE Ok(a_ndim,
            [i \in 1..Len(a) |->
                LET idx == searchsorted(r, a[i])
                    d == a[i] - PyIndex(r, idx - 1)
                IN  IF d < 0 THEN NaN
                    ELSE IF no_beyond /\ a[i] > np_max(r) THEN NaN
                    ELSE F(d)])

_negative_align(a, a_ndim, r, r_ndim, no_before) ==
    LET ext == Append(r, np_max(r) + DummyOffset)
        max_idx == Len(ext) - 1
    IN  Ok(a_ndim,
           [i \in 1..Len(a) |->
                LET idx0 == searchsorted(ext, a[i])
                    idx == IF idx0 < max_idx THEN idx0 + 1 ELSE idx0
                    d == a[i] - PyIndex(ext, idx - 1)
                IN  IF d > 0 THEN NaN
                    ELSE IF no_before /\ a[i] < np_min(ext) THEN NaN
                    ELSE F(d)])

\* A faulty variant of where_lookback: the comparison with -t_before is strict.
where_lookback_strict(neg, pos, t_before) ==
    [i \in 1..Len(pos) |-> IF FGt(neg[i], t_before * (-1)) THEN neg[i] ELSE pos[i]]

\* np.where(negative_latencies >= t_before * -1, negative_latencies, postive_latencies)
where_lookback(neg, pos, t_before) ==
    [i \in 1..Len(pos) |-> IF FGe(neg[i], t_before * (-1)) THEN neg[i] ELSE pos[i]]

\* latencies[latencies > max_latency] = np.nan
mask_above(lat, max_latency) ==
    [i \in 1..Len(lat) |-> IF FGt(lat[i], max_latency) THEN NaN ELSE lat[i]]

\* A faulty variant of drop_nan: the boolean mask is not negated, so only NaN stays.
drop_nan_keeps_nan(lat) == SelectSeq(lat, LAMBDA e : e.nan)

\* latencies[np.logical_not(np.isnan(latencies))]: boolean-mask selection, in order.
RECURSIVE drop_nan(_)
drop_nan(lat) ==
    IF lat = <<>> THEN <<>>
    ELSE IF Head(lat).nan THEN drop_nan(Tail(lat))
    ELSE <<Head(lat)>> \o drop_nan(Tail(lat))

align_around(a, a_ndim, r, r_ndim, t_before, max_latency, drop) ==
    LET positive == _align_to(a, a_ndim, r, r_ndim, FALSE)
    IN  IF positive.status # "ok" THEN positive
        ELSE
        LET lat0 == IF t_before.some
                    THEN where_lookback(
                            _negative_align(a, a_ndim, r, r_ndim, FALSE).val,
                            positive.val, t_before.v)
                    ELSE positive.val
            lat1 == IF Truthy(max_latency) THEN mask_above(lat0, max_latency.v) ELSE lat0
        IN  IF drop
            THEN Ok(1, drop_nan(lat1))     \* a boolean mask always yields a 1-D array
            ELSE Ok(a_ndim, lat1)

---------------------------------------------------------------------------
(* src/binit/bin.py *)

\* np.histogram(arr, bins=bins) for an array of bin edges: the edges must not
\* decrease; every bin is half-open except the last, which is closed.
np_histogram(a, bins) ==
    IF \E i \in 1..(Len(bins) - 1) : bins[i] > bins[i + 1]
    THEN Raise("ValueError", "histogram")
    ELSE [status |-> "ok", type |-> "tuple", ndim |-> 0,
          val |-> [values |->
                     [i \in 1..(Len(bins) - 1) |->
                        Cardinality({j \in 1..Len(a) :
                            /\ bins[i] <= a[j]
                            /\ IF i = Len(bins) - 1 THEN a[j] <= bins[i + 1]
                                                    ELSE a[j] < bins[i + 1]})],
                   edges |-> bins]]

\* return edges[1:], values
binned_array_bins_provided(a, bins) ==
    LET h == np_histogram(a, bins)
    IN  IF h.status # "ok" THEN h
        ELSE [status |-> "ok", type |-> "tuple", ndim |-> 0,
              val |-> << [type |-> "edges", data |-> Tail(h.val.edges)],
                         [type |-> "counts", data |-> h.val.values] >>]

\* bin_edges - time_before, or bin_edges when time_before is None
shifted_edges(bin_edges, time_before) ==
    IF time_before.some
    THEN [i \in 1..Len(bin_edges) |-> bin_edges[i] - time_before.v]
    ELSE bin_edges

which_bin(a, bin_edges, time_before, nan_vals_before_first_bin, nan_vals_occuring_x_after_last_bin) ==
    [i \in 1..Len(a) |->
        LET idx == digitize(a[i], shifted_edges(bin_edges, time_before)) - 1
        IN  IF nan_vals_occuring_x_after_last_bin.some
               /\ a[i] - np_max(bin_edges) > nan_vals_occuring_x_after_last_bin.v
            THEN NaN
            ELSE IF nan_vals_before_first_bin /\ idx < 0 THEN NaN
            ELSE F(PyIndex(bin_edges, idx))]

which_bin_idx(a, bin_edges, time_before, nan_vals_before_first_bin, nan_vals_occuring_x_after_last_bin) ==
    [i \in 1..Len(a) |->
        LET idx == digitize(a[i], shifted_edges(bin_edges, time_before)) - 1
        IN  IF nan_vals_occuring_x_after_last_bin.some
               /\ a[i] - np_max(bin_edges) > nan_vals_occuring_x_after_last_bin.v
            THEN NaN
            ELSE IF nan_vals_before_first_bin /\ idx < 0 THEN NaN
            ELSE F(idx)]

\* A faulty variant of np_unique: the distinct values in descending order.
RECURSIVE np_unique_descending(_)
np_unique_descending(S) ==
    IF S = {} THEN <<>>
    ELSE <<SetMax(S)>> \o np_unique_descending(S \ {SetMax(S)})

\* np.unique: the distinct values, sorted ascending.
RECURSIVE np_unique(_)
np_unique(S) ==
    IF S = {} THEN <<>>
    ELSE <<SetMin(S)>> \o np_unique(S \ {SetMin(S)})

\* arr[bin_vals == bin_val] - bin_val
RECURSIVE latencies_to_bin(_, _, _)
latencies_to_bin(a, bin_vals, bin_val) ==
    IF a = <<>> THEN <<>>
    ELSE (IF ~Head(bin_vals).nan /\ Head(bin_vals).v = bin_val
          THEN <<Head(a) - bin_val>> ELSE <<>>)
         \o latencies_to_bin(Tail(a), Tail(bin_vals), bin_val)

\* The OrderedDict is the sequence of its (key, value) items in insertion order.
split_by_bin(a, bins, max_latency, time_before) ==
    LET bin_vals == which_bin(a, bins, time_before, FALSE, max_latency)
        keys == np_unique({bin_vals[i].v : i \in {j \in 1..Len(a) : ~bin_vals[j].nan}})
    IN  [k \in 1..Len(keys) |->
            [key |-> keys[k], val |-> latencies_to_bin(a, bin_vals, keys[k])]]

\* t[::2] for a tuple or array t
every_other(t) == [i \in 1..((Len(t) + 1) \div 2) |-> t[2 * i - 1]]

\* np.repeat(timestamps_to_bin_around, 2); bins[1::2] += binsize
window_edges(events, binsize) ==
    [i \in 1..(2 * Len(events)) |->
        IF i % 2 = 1 THEN events[(i + 1) \div 2] ELSE events[i \div 2] + binsize]

bin_array_around_event(a, timestamps_to_bin_around, binsize) ==
    LET spikecounts == binned_array_bins_provided(a,
                            window_edges(timestamps_to_bin_around, binsize))
    IN  IF spikecounts.status # "ok" THEN spikecounts
        ELSE [status |-> "ok", type |-> "tuple", ndim |-> 0,
              val |-> every_other(spikecounts.val)]

---------------------------------------------------------------------------
(* Inputs and calls *)

TimeVals == (0..(MaxT + 1)) \cup {MaxT + DummyOffset, MaxT + DummyOffset + 1}
EdgeVals == 1..MaxT

SeqsUpTo(S, n) == UNION {[1..k -> S] : k \in 0..n}
Ascending(s) == \A i \in 1..(Len(s) - 1) : s[i] <= s[i + 1]

\* The reference side is non-empty and sorted ascending, as every function requires.
Timestamps == SeqsUpTo(TimeVals, MaxArrLen)
References == {s \in SeqsUpTo(EdgeVals, MaxRefLen) : s # <<>> /\ Ascending(s)}

OptParams == {None} \cup {Some(k) : k \in 0..MaxParam}

NoArgs == [t_before |-> None, max_latency |-> None, drop |-> FALSE,
           nan_before |-> FALSE, nan_after |-> None, binsize |-> 0]

Init ==
    /\ arr \in Timestamps
    /\ ref \in References
    /\ arr_ndim = 1
    /\ ref_ndim = 1
    /\ op = "none"
    /\ args = NoArgs
    /\ result = [status |-> "none"]

\* The same inputs, as arrays of one or more dimensions.
InitShape ==
    /\ arr \in Timestamps
    /\ ref \in References
    /\ arr_ndim \in 1..MaxDim
    /\ ref_ndim \in 1..MaxDim
    /\ op = "none"
    /\ args = NoArgs
    /\ result = [status |-> "none"]

\* Timestamps around the bin edges only, in longer arrays.
InitSplit ==
    /\ arr \in SeqsUpTo(0..MaxT, MaxSplitLen)
    /\ ref \in References
    /\ arr_ndim = 1
    /\ ref_ndim = 1
    /\ op = "none"
    /\ args = NoArgs
    /\ result = [status |-> "none"]

Inputs == <<arr, arr_ndim, ref, ref_ndim>>

\* A behaviour is one call: each action is enabled only before any call was made.

AlignAround ==
    \E t_before \in OptParams, max_latency \in OptParams, drop \in BOOLEAN :
        /\ op = "none"
        /\ op' = "align_around"
        /\ args' = [NoArgs EXCEPT !.t_before = t_before,
                                  !.max_latency = max_latency, !.drop = drop]
        /\ result' = align_around(arr, arr_ndim, ref, ref_ndim,
                                  t_before, max_latency, drop)
        /\ UNCHANGED Inputs

WhichBin ==
    \E time_before \in OptParams, nan_before \in BOOLEAN, nan_after \in OptParams :
        /\ op = "none"
        /\ op' = "which_bin"
        /\ args' = [NoArgs EXCEPT !.t_before = time_before,
                                  !.nan_before = nan_before, !.nan_after = nan_after]
        /\ result' = Ok(1, which_bin(arr, ref, time_before, nan_before, nan_after))
        /\ UNCHANGED Inputs

WhichBinIdx ==
    \E time_before \in OptParams, nan_before \in BOOLEAN, nan_after \in OptParams :
        /\ op = "none"
        /\ op' = "which_bin_idx"
        /\ args' = [NoArgs EXCEPT !.t_before = time_before,
                                  !.nan_before = nan_before, !.nan_after = nan_after]
        /\ result' = Ok(1, which_bin_idx(arr, ref, time_before, nan_before, nan_after))
        /\ UNCHANGED Inputs

SplitByBin ==
    \E max_latency \in OptParams, time_before \in OptParams :
        /\ op = "none"
        /\ op' = "split_by_bin"
        /\ args' = [NoArgs EXCEPT !.t_before = time_before, !.max_latency = max_latency]
        /\ result' = [status |-> "ok", type |-> "OrderedDict", ndim |-> 0,
                      val |-> split_by_bin(arr, ref, max_latency, time_before)]
        /\ UNCHANGED Inputs

BinArrayAroundEvent ==
    \E binsize \in 1..MaxParam :
        /\ op = "none"
        /\ op' = "bin_array_around_event"
        /\ args' = [NoArgs EXCEPT !.binsize = binsize]
        /\ result' = bin_array_around_event(arr, ref, binsize)
        /\ UNCHANGED Inputs

Next ==
    \/ AlignAround
    \/ WhichBin
    \/ WhichBinIdx
    \/ SplitByBin
    \/ BinArrayAroundEvent

Spec == Init /\ [][Next]_vars

NextAlign == AlignAround
NextShape == AlignAround
NextSplit == SplitByBin

\* Calls of align_around only, on the same inputs as Spec.
SpecAlign == Init /\ [][NextAlign]_vars

SpecShape == InitShape /\ [][NextShape]_vars

SpecSplit == InitSplit /\ [][NextSplit]_vars

---------------------------------------------------------------------------
(* Properties *)

IsAlign == op = "align_around" /\ result.status = "ok"
Lookback == IF args.t_before.some THEN args.t_before.v ELSE 0

\* Reference elements at or after x, and strictly before x.
Following(x) == {r \in Elems(ref) : r >= x}
Below(x) == {r \in Elems(ref) : r < x}

\* The forward latency of a timestamp that equals no reference element.
ForwardOf(x) == IF Below(x) = {} THEN NaN ELSE F(x - SetMax(Below(x)))

\* C1: with a lookback L (no max_latency, no drop), a timestamp whose nearest
\* following reference element r' is at most L away gets x - r' (<= 0); every
\* other timestamp, also one beyond the reference maximum by any distance,
\* gets its forward latency.
C1_LookbackMerge ==
    (op = "align_around" /\ args.t_before.some /\ ~args.max_latency.some /\ ~args.drop) =>
        /\ result.status = "ok"
        /\ Len(result.val) = Len(arr)
        /\ \A i \in 1..Len(arr) :
              LET x == arr[i]
              IN  IF Following(x) # {} /\ SetMin(Following(x)) - x <= args.t_before.v
                  THEN /\ result.val[i] = F(x - SetMin(Following(x)))
                       /\ result.val[i].v <= 0
                  ELSE result.val[i] = ForwardOf(x)

\* A call with a lookback where one timestamp falls strictly inside the lookback
\* window of the following element and another lies beyond the dummy element.
C1_Witness ==
    /\ IsAlign /\ args.t_before.some /\ ~args.max_latency.some /\ ~args.drop
    /\ \E i \in 1..Len(arr) : ~result.val[i].nan /\ result.val[i].v < 0
    /\ \E j \in 1..Len(arr) :
          /\ arr[j] > np_max(ref) + DummyOffset
          /\ result.val[j] = F(arr[j] - np_max(ref))

\* C2: without lookback, max_latency and drop, a timestamp equal to no reference
\* element gets NaN if it precedes every reference element and otherwise its
\* (strictly positive) distance to the greatest reference element below it.
C2_ForwardPass ==
    (op = "align_around" /\ ~args.t_before.some /\ ~args.max_latency.some /\ ~args.drop) =>
        /\ result.status = "ok"
        /\ Len(result.val) = Len(arr)
        /\ \A i \in 1..Len(arr) :
              arr[i] \notin Elems(ref) =>
                  /\ result.val[i] = ForwardOf(arr[i])
                  /\ ~result.val[i].nan => result.val[i].v > 0

\* A forward-only call with a timestamp before the whole reference and another
\* strictly between two reference elements.
C2_Witness ==
    /\ IsAlign /\ ~args.t_before.some /\ ~args.max_latency.some /\ ~args.drop
    /\ \E i \in 1..Len(arr) : Below(arr[i]) = {} /\ arr[i] \notin Elems(ref) /\ result.val[i].nan
    /\ \E j \in 1..Len(arr) :
          /\ arr[j] \notin Elems(ref)
          /\ Below(arr[j]) # {}
          /\ Following(arr[j]) # {}
          /\ result.val[j] = F(arr[j] - SetMax(Below(arr[j])))

\* C3: a timestamp equal to a reference element gets latency 0, with or without
\* a lookback.
C3_TieAlignsToItself ==
    (op = "align_around" /\ ~args.drop) =>
        /\ result.status = "ok"
        /\ \A i \in 1..Len(arr) : arr[i] \in Elems(ref) => result.val[i] = F(0)

\* C4: when max_latency is given, no entry of the output exceeds it, and the
\* entries not exceeding it are those of the call without max_latency.
C4_MaxLatencyCutoff ==
    (op = "align_around" /\ args.max_latency.some) =>
        /\ result.status = "ok"
        /\ \A i \in 1..Len(result.val) :
              ~result.val[i].nan => result.val[i].v <= args.max_latency.v
        /\ ~args.drop =>
              LET uncut == align_around(arr, arr_ndim, ref, ref_ndim,
                                        args.t_before, None, FALSE).val
              IN  \A i \in 1..Len(arr) :
                      result.val[i] = IF FGt(uncut[i], args.max_latency.v)
                                      THEN NaN ELSE uncut[i]

\* C5: with the default flags, an assigned edge never exceeds its timestamp by
\* more than the lookback, in which_bin and in the groups of split_by_bin.
C5_EdgeWithinLookback ==
    /\ (op = "which_bin" /\ ~args.nan_before /\ ~args.nan_after.some) =>
          \A i \in 1..Len(arr) :
              ~result.val[i].nan => result.val[i].v - arr[i] <= Lookback
    /\ op = "split_by_bin" =>
          \A k \in 1..Len(result.val) :
              \A j \in 1..Len(result.val[k].val) :
                  (-1) * result.val[k].val[j] <= Lookback

\* The timestamps assigned to edge e by the bin values bv, as latencies to e,
\* in input order.
LatenciesOf(bv, e) ==
    LET idxs == SelectSeq([i \in 1..Len(arr) |-> i],
                          LAMBDA i : ~bv[i].nan /\ bv[i].v = e)
    IN  [j \in 1..Len(idxs) |-> arr[idxs[j]] - e]

\* How many entries of all groups reconstruct (latency + edge) to timestamp t.
Reconstructed(items, t) ==
    Cardinality({kj \in {<<k, j>> : k \in 1..Len(items), j \in 1..Len(arr)} :
                    /\ kj[2] <= Len(items[kj[1]].val)
                    /\ items[kj[1]].val[kj[2]] + items[kj[1]].key = t})

\* C6: the keys of split_by_bin are the distinct non-missing edges which_bin
\* assigns, strictly ascending; each group holds timestamp - edge of the
\* timestamps assigned to its edge, in input order; latency + edge over all
\* groups gives back exactly the assigned timestamps, each as often as it occurs.
C6_SplitByBinGrouping ==
    op = "split_by_bin" =>
        LET bv == which_bin(arr, ref, args.t_before, FALSE, args.max_latency)
            items == result.val
            assigned == {i \in 1..Len(arr) : ~bv[i].nan}
        IN  /\ {items[k].key : k \in 1..Len(items)} = {bv[i].v : i \in assigned}
            /\ \A k \in 1..(Len(items) - 1) : items[k].key < items[k + 1].key
            /\ \A k \in 1..Len(items) : items[k].val = LatenciesOf(bv, items[k].key)
            /\ \A t \in Elems(arr) \cup {items[k].key : k \in 1..Len(items)} :
                  Reconstructed(items, t) = Cardinality({i \in assigned : arr[i] = t})

\* A call whose timestamps arrive in descending order, fall into two different
\* bins, and one of which is cut off by max_latency.
C6_Witness ==
    /\ op = "split_by_bin"
    /\ Len(result.val) >= 2
    /\ \E i, j \in 1..Len(arr) :
          /\ i < j /\ arr[i] > arr[j]
          /\ \E k \in 1..Len(result.val) :
                result.val[k].val = <<arr[i] - result.val[k].key>>
    /\ \E i \in 1..Len(arr) :
          which_bin(arr, ref, args.t_before, FALSE, args.max_latency)[i].nan

\* Windows of consecutive events do not overlap.
NonOverlapping ==
    \A i \in 1..(Len(ref) - 1) : ref[i] + args.binsize <= ref[i + 1]

\* The number of timestamps in [event, event + binsize), per event.
WindowCounts ==
    [i \in 1..Len(ref) |->
        Cardinality({j \in 1..Len(arr) :
                        ref[i] <= arr[j] /\ arr[j] < ref[i] + args.binsize})]

\* C7: for non-overlapping windows bin_array_around_event returns one count per
\* event, the number of timestamps in [event, event + binsize).
C7_WindowCounts ==
    (op = "bin_array_around_event" /\ NonOverlapping) =>
        /\ result.status = "ok"
        /\ result.type = "ndarray"
        /\ result.val = WindowCounts

\* C8: a call with an input of more than one dimension, be it only one of the
\* two, fails with ValueError and returns no latency array.
C8_ShapeRejected ==
    (op = "align_around" /\ (arr_ndim > 1 \/ ref_ndim > 1)) =>
        result.status = "ValueError"

\* The latency of one timestamp, aligned on its own without drop.
LatencyOf(x) ==
    align_around(<<x>>, 1, ref, 1, args.t_before, args.max_latency, FALSE).val[1]

\* C9: without drop the output has one entry per input element, the latency of
\* that element; with drop it is the subsequence of the non-missing ones, holds
\* no NaN, and dropping NaN from it again changes nothing.
C9_DropSemantics ==
    op = "align_around" =>
        LET latencies == [i \in 1..Len(arr) |-> LatencyOf(arr[i])]
            kept == SelectSeq(latencies, LAMBDA e : ~e.nan)
        IN  /\ result.status = "ok"
            /\ ~args.drop => result.val = latencies
            /\ args.drop =>
                  /\ result.val = kept
                  /\ \A i \in 1..Len(result.val) : ~result.val[i].nan
                  /\ SelectSeq(result.val, LAMBDA e : ~e.nan) = result.val

\* A call with drop that removes one entry and keeps another.
C9_Witness ==
    /\ IsAlign /\ args.drop
    /\ Len(result.val) >= 1
    /\ Len(result.val) < Len(arr)

\* C10: which_bin (lookback L) and split_by_bin (lookback L, max_latency M)
\* assign an edge exactly to the timestamps align_around gives a latency, and
\* timestamp - edge is that latency.
C10_BinAgreesWithAlign ==
    /\ (op = "which_bin" /\ args.t_before.some /\ ~args.nan_before /\ ~args.nan_after.some) =>
          LET al == align_around(arr, 1, ref, 1, args.t_before, None, FALSE).val
          IN  \A i \in 1..Len(arr) :
                  /\ result.val[i].nan <=> al[i].nan
                  /\ ~al[i].nan => F(arr[i] - result.val[i].v) = al[i]
    /\ (op = "split_by_bin" /\ args.t_before.some /\ args.max_latency.some) =>
          LET al == align_around(arr, 1, ref, 1, args.t_before, args.max_latency, FALSE).val
              items == result.val
              Size(k) == Len(items[k].val)
              RECURSIVE Total(_)
              Total(k) == IF k = 0 THEN 0 ELSE Size(k) + Total(k - 1)
          IN  /\ Total(Len(items)) = Cardinality({i \in 1..Len(arr) : ~al[i].nan})
              /\ \A k \in 1..Len(items) : \A j \in 1..Len(items[k].val) :
                    \E i \in 1..Len(arr) :
                        /\ arr[i] = items[k].val[j] + items[k].key
                        /\ al[i] = F(items[k].val[j])

====
